---- MODULE Spec2Model ----
(***************************************************************************)
(* merge_sources.py: merge the source/text files below a directory into    *)
(* one document.  The model follows main() step by step: argument parsing, *)
(* root resolution, removal of an old output file, iter_source_files and   *)
(* write_merged.                                                           *)
(*                                                                         *)
(* A file name is a sequence of one-character strings, a path is a         *)
(* sequence of names (the components below "/"), file data is a sequence   *)
(* of byte tokens and text a sequence of character tokens.                 *)
(*                                                                         *)
(* Spec      : whole invocations of the tool, one after another.           *)
(* SpecEnum  : iter_source_files on any tree and any root of it.           *)
(* SpecWrite : the scan and write_merged on files of any data, readable or *)
(*             not, which may be deleted between the scan and their read.  *)
(***************************************************************************)
EXTENDS Naturals, Sequences, FiniteSets, TLC

VARIABLES
    scriptDir,      \* Path(__file__).resolve().parent
    fs,             \* the tree below scriptDir: relative path -> entry
    envUnlinkOk,    \* whether the platform lets the entry at the output path be unlinked
    envWriteOk,     \* whether the platform lets an existing file there be opened for writing
    args,           \* the command line: [all, dir_name, output]
    pc,             \* position of main()
    status,         \* exit status of the process, None while running
    root,           \* main's root
    out_path,       \* main's out_path
    files,          \* the list returned by iter_source_files
    idx,            \* write_merged's loop index i (1-based: next entry to write)
    written,        \* the text written to fw so far
    reads,          \* per entry written: the text read_text gave, or the diagnostic
    summary,        \* the count printed by the final message, None before
    run,            \* number of the current invocation
    fsBefore,       \* the tree when the current invocation started
    unlinkFailed,   \* whether this invocation took the "except Exception: pass" branch
    firstOutput     \* the output data left by the first successful invocation, None before

vars == <<scriptDir, fs, envUnlinkOk, envWriteOk, args, pc, status, root, out_path,
          files, idx, written, reads, summary, run, fsBefore, unlinkFailed, firstOutput>>

\* an optional value: None, or Some(x)
None == <<>>
Some(x) == <<x>>

\* bounds of the model
MaxRuns == 2            \* invocations in a row
MaxFiles == 2           \* files of a tree, whole program
MaxTreeFiles == 3       \* files of a tree, iter_source_files on its own
MaxWriteFiles == 2      \* files of a tree, write_merged on its own

(***************************************************************************)
(* Characters                                                              *)
(***************************************************************************)
UpperChars == <<"A","B","C","D","E","F","G","H","I","J","K","L","M",
                "N","O","P","Q","R","S","T","U","V","W","X","Y","Z">>
LowerChars == <<"a","b","c","d","e","f","g","h","i","j","k","l","m",
                "n","o","p","q","r","s","t","u","v","w","x","y","z">>
DigitChars == <<"0","1","2","3","4","5","6","7","8","9">>

OtherChars == <<".", "/", "-", "_">>

IndexIn(c, s) == IF \E k \in 1..Len(s) : s[k] = c
                 THEN CHOOSE k \in 1..Len(s) : s[k] = c
                 ELSE 0

\* the characters of path strings
PathChars ==
    {UpperChars[k] : k \in 1..Len(UpperChars)} \cup {LowerChars[k] : k \in 1..Len(LowerChars)}
    \cup {DigitChars[k] : k \in 1..Len(DigitChars)} \cup {OtherChars[k] : k \in 1..Len(OtherChars)}

\* str.lower() on one character
LowerOf ==
    [c \in PathChars |->
        IF IndexIn(c, UpperChars) > 0 THEN LowerChars[IndexIn(c, UpperChars)] ELSE c]

LowerChar(c) == LowerOf[c]

\* the code point of a character, which is what str comparison compares
OrdOf ==
    [c \in PathChars |->
        IF IndexIn(c, UpperChars) > 0 THEN 64 + IndexIn(c, UpperChars)
        ELSE IF IndexIn(c, LowerChars) > 0 THEN 96 + IndexIn(c, LowerChars)
        ELSE IF IndexIn(c, DigitChars) > 0 THEN 47 + IndexIn(c, DigitChars)
        ELSE IF c = "." THEN 46
        ELSE IF c = "/" THEN 47
        ELSE IF c = "-" THEN 45
        ELSE 95]

Ord(c) == OrdOf[c]

\* str.lower() on a character sequence
Lower(s) == [k \in 1..Len(s) |-> LowerChar(s[k])]

\* the Python string a character sequence stands for
RECURSIVE Str(_)
Str(s) == IF s = <<>> THEN "" ELSE Head(s) \o Str(Tail(s))

\* a < b for Python strings: lexicographic on code points
RECURSIVE StrLess(_, _)
StrLess(a, b) ==
    IF b = <<>> THEN FALSE
    ELSE IF a = <<>> THEN TRUE
    ELSE IF Ord(Head(a)) # Ord(Head(b)) THEN Ord(Head(a)) < Ord(Head(b))
    ELSE StrLess(Tail(a), Tail(b))

(***************************************************************************)
(* Configuration of the tool                                               *)
(***************************************************************************)
WHITELIST_EXTS == {
    ".c", ".h", ".hpp", ".hh", ".hxx", ".ipp",
    ".cpp", ".cc", ".cxx", ".inl", ".ixx",
    ".cs", ".java", ".kt",
    ".ts", ".tsx", ".js", ".jsx",
    ".py", ".rs", ".go", ".swift",
    ".m", ".mm", ".lua", ".sh", ".bat", ".ps1",
    ".cmake", ".proto", ".sql",
    ".yml", ".yaml", ".toml", ".ini", ".cfg", ".conf",
    ".txt", ".md", ".json", ".csv",
    ".f90", ".f95", ".f03", ".f08", ".for", ".f", ".ftn",
    ".asm", ".s",
    ".vert", ".frag", ".glsl", ".hlsl", ".metal",
    ".make" }

WHITELIST_BARE_NAMES == {"Makefile", "CMakeLists.txt"}

EXCLUDE_DIRS == {
    ".git", ".hg", ".svn", ".idea", ".vscode", ".vs",
    "node_modules", "dist", "out", "build", "target", "bin", "obj",
    "__pycache__", ".venv", "venv", ".mypy_cache", ".pytest_cache",
    "DerivedData", "Pods" }

\* OUTPUT_FILENAME = "document.txt"
OUTPUT_FILENAME == <<"d","o","c","u","m","e","n","t",".","t","x","t">>

(***************************************************************************)
(* Paths                                                                   *)
(***************************************************************************)
\* Path.name: the last component ("" for the filesystem root)
Name(p) == IF p = <<>> THEN <<>> ELSE p[Len(p)]

\* Path.suffix: from the last dot of the name, unless that dot leads or ends it
Suffix(p) ==
    LET name == Name(p)
        dots == {k \in 1..Len(name) : name[k] = "."}
    IN
    IF dots = {} THEN <<>>
    ELSE LET d == CHOOSE k \in dots : \A m \in dots : m <= k
         IN  IF 1 < d /\ d < Len(name) THEN SubSeq(name, d, Len(name)) ELSE <<>>

\* Path.parents: every proper ancestor, up to the filesystem root <<>>
Parents(p) == {SubSeq(p, 1, k) : k \in 0..(Len(p) - 1)}

IsPrefix(a, b) == Len(a) <= Len(b) /\ SubSeq(b, 1, Len(a)) = a

\* str(path): "/" before every component
RECURSIVE PathStr(_)
PathStr(p) == IF p = <<>> THEN <<>> ELSE <<"/">> \o Head(p) \o PathStr(Tail(p))

\* f.relative_to(rel_base).as_posix(): the components below the base, joined by "/"
RECURSIVE JoinPosix(_)
JoinPosix(p) ==
    IF p = <<>> THEN <<>>
    ELSE IF Len(p) = 1 THEN Head(p)
    ELSE Head(p) \o <<"/">> \o JoinPosix(Tail(p))

RelativePosix(f, base) == JoinPosix(SubSeq(f, Len(base) + 1, Len(f)))

(***************************************************************************)
(* The filesystem                                                          *)
(***************************************************************************)
n_home     == <<"h","o","m","e">>
n_proj     == <<"p","r","o","j">>
n_build    == <<"b","u","i","l","d">>
n_sub      == <<"s","u","b">>
n_nodir    == <<"n","o","d","i","r">>
n_a_py     == <<"a",".","p","y">>
n_A_PY     == <<"A",".","P","Y">>
n_b_txt    == <<"b",".","t","x","t">>
n_x_js     == <<"x",".","j","s">>
n_y_py     == <<"y",".","p","y">>
n_img_png  == <<"i","m","g",".","p","n","g">>
n_Makefile == <<"M","a","k","e","f","i","l","e">>
n_makefile == <<"m","a","k","e","f","i","l","e">>
n_dot_txt  == <<".","t","x","t">>
n_out_log  == <<"o","u","t",".","l","o","g">>

\* the directories of the model, relative to scriptDir
Dirs == {<<>>, <<n_sub>>, <<n_build>>, <<n_sub, n_build>>}

\* every relative path a tree or a command line of the model can name
Universe ==
    Dirs \cup
    { <<n_a_py>>, <<n_A_PY>>, <<n_img_png>>, <<n_Makefile>>, <<n_makefile>>,
      <<n_dot_txt>>, <<OUTPUT_FILENAME>>, <<n_out_log>>, <<n_b_txt>>, <<n_nodir>>,
      <<n_sub, n_b_txt>>, <<n_build, n_x_js>>, <<n_sub, n_build, n_y_py>> }

Absent == [kind |-> "absent", data |-> <<>>, readable |-> FALSE]
Directory == [kind |-> "dir", data |-> <<>>, readable |-> TRUE]
RegularFile(data, readable) == [kind |-> "file", data |-> data, readable |-> readable]

Abs(rel) == scriptDir \o rel
Rel(p) == SubSeq(p, Len(scriptDir) + 1, Len(p))
InTree(p) == IsPrefix(scriptDir, p) /\ Rel(p) \in Universe

\* the entry at an absolute path; the directories above scriptDir exist
EntryAt(tree, p) ==
    IF InTree(p) THEN tree[Rel(p)]
    ELSE IF p \in Parents(scriptDir) THEN Directory
    ELSE Absent

\* Path.exists(), Path.is_dir()
Exists(p) == EntryAt(fs, p).kind # "absent"
IsDir(p) == EntryAt(fs, p).kind = "dir"

\* the permutations of a finite set, as sequences
RECURSIVE Perms(_)
Perms(S) ==
    IF S = {} THEN {<<>>}
    ELSE UNION {{<<x>> \o q : q \in Perms(S \ {x})} : x \in S}

\* what root.rglob("*") yields: every entry below root
Below(r) == {Abs(q) : q \in {u \in Universe : fs[u].kind # "absent"
                                              /\ IsPrefix(r, Abs(u)) /\ Abs(u) # r}}

\* the entries of one directory
Children(d) == {p \in Below(d) : Len(p) = Len(d) + 1}

\* the orders in which rglob("*") can yield the entries below d: the listing of
\* d, then the same for each subdirectory in listing order.  The order of a
\* listing is the platform's, which the code does not control: any order.
RECURSIVE Walks(_)
RECURSIVE WalkSeqs(_)
Walks(d) ==
    UNION { {listing \o rest : rest \in WalkSeqs(SelectSeq(listing, IsDir))}
            : listing \in Perms(Children(d)) }

WalkSeqs(ds) ==
    IF ds = <<>> THEN {<<>>}
    ELSE {a \o b : a \in Walks(Head(ds)), b \in WalkSeqs(Tail(ds))}

TraversalOrders(r) == Walks(r)

(***************************************************************************)
(* is_allowed_file, should_skip_dir, iter_source_files                     *)
(***************************************************************************)
is_allowed_file(path) ==
    IF Str(Name(path)) \in WHITELIST_BARE_NAMES THEN TRUE
    ELSE Str(Lower(Suffix(path))) \in WHITELIST_EXTS

should_skip_dir(path) == Str(Name(path)) \in EXCLUDE_DIRS

\* key=lambda x: str(x).lower()
SortKey(x) == Lower(PathStr(x))

\* list.sort(key=...) is stable: an element goes after every element whose key
\* is not greater than its own
RECURSIVE InsertByKey(_, _)
InsertByKey(sorted, x) ==
    IF sorted = <<>> THEN <<x>>
    ELSE IF StrLess(SortKey(x), SortKey(Head(sorted))) THEN <<x>> \o sorted
    ELSE <<Head(sorted)>> \o InsertByKey(Tail(sorted), x)

RECURSIVE SortFiles(_)
SortFiles(s) ==
    IF s = <<>> THEN <<>>
    ELSE InsertByKey(SortFiles(SubSeq(s, 1, Len(s) - 1)), s[Len(s)])

\* the "if any(should_skip_dir(parent) for parent in p.parents if parent != root)" test
SkippedByParent(p, r) == \E parent \in Parents(p) : parent # r /\ should_skip_dir(parent)

\* the list iter_source_files(root) returns when rglob yields the entries in `order`
iter_source_files(r, order) ==
    LET Keep(p) == ~IsDir(p) /\ ~SkippedByParent(p, r) /\ is_allowed_file(p)
    IN  SortFiles(SelectSeq(order, Keep))

(***************************************************************************)
(* Text: read_text(encoding="utf-8", errors="replace"), str.rstrip, and    *)
(* the utf-8 writer opened with newline="\n"                               *)
(***************************************************************************)
BadByte == "\\xff"          \* a byte that is not valid utf-8
ReplChar == "U+FFFD"        \* the replacement character errors="replace" puts for it
ReplBytes == "EF.BF.BD"     \* the utf-8 encoding of the replacement character

DecodeByte(b) == IF b = BadByte \/ b = ReplBytes THEN ReplChar ELSE b

\* decoding, then the universal-newline translation of text mode
RECURSIVE Decode(_)
Decode(bytes) ==
    IF bytes = <<>> THEN <<>>
    ELSE IF Head(bytes) = "\r"
         THEN IF Len(bytes) > 1 /\ bytes[2] = "\n"
              THEN <<"\n">> \o Decode(Tail(Tail(bytes)))
              ELSE <<"\n">> \o Decode(Tail(bytes))
    ELSE <<DecodeByte(Head(bytes))>> \o Decode(Tail(bytes))

\* encoding on write; newline="\n" translates nothing
Encode(text) == [k \in 1..Len(text) |-> IF text[k] = ReplChar THEN ReplBytes ELSE text[k]]

Whitespace == {" ", "\t", "\n", "\r", "\f"}

RECURSIVE rstrip(_)
rstrip(text) ==
    IF text = <<>> THEN <<>>
    ELSE IF text[Len(text)] \in Whitespace THEN rstrip(SubSeq(text, 1, Len(text) - 1))
    ELSE text

\* f"<<ERROR READING FILE: {e}>>"; "{e}" stands for the text of the exception
Diagnostic == <<"<<ERROR READING FILE: ", "{e}", ">>">>

\* f"-- {rel}\n\n"
Header(f, base) == <<"-", "-", " ">> \o RelativePosix(f, base) \o <<"\n", "\n">>

\* the texts f.read_text(...) can give, or the diagnostic when it raises.  The
\* output file itself, when it is in the list, holds whatever part of the
\* text written so far has left the writer's buffers.
ReadResults(f) ==
    LET e == EntryAt(fs, f)
    IN  IF e.kind # "file" \/ ~e.readable THEN {Diagnostic}
        ELSE IF f = out_path THEN {SubSeq(written, 1, k) : k \in 0..Len(written)}
        ELSE {Decode(e.data)}

\* EntryText with a fault: the separator is written after the last entry too
EntryText_AlwaysSeparator(i, text) ==
    Header(files[i], root) \o rstrip(text) \o <<"\n">> \o <<"\n">>

\* what one pass of the loop of write_merged writes for entry i whose text is `text`
EntryText(i, text) ==
    Header(files[i], root) \o rstrip(text) \o <<"\n">>
    \o (IF i # Len(files) THEN <<"\n">> ELSE <<>>)

(***************************************************************************)
(* main()                                                                  *)
(***************************************************************************)
SetEntry(tree, p, e) == [tree EXCEPT ![Rel(p)] = e]

\* parser.parse_args(): exactly one of -a and -d, else exit status 2
UsageError(a) == (a.all /\ a.dir_name # None) \/ (~a.all /\ a.dir_name = None)

ParseArgs ==
    /\ pc = "parse"
    /\ IF UsageError(args)
       THEN pc' = "exit" /\ status' = Some(2)
       ELSE pc' = "resolve" /\ status' = status
    /\ UNCHANGED <<scriptDir, fs, envUnlinkOk, envWriteOk, args, root, out_path, files,
                   idx, written, reads, summary, run, fsBefore, unlinkFailed, firstOutput>>

\* the root main computes: script_dir, or script_dir / dir_name
RootOf(a) == IF a.all THEN scriptDir ELSE scriptDir \o a.dir_name[1]

\* ResolveRoot with a fault: the target of -d is not checked
ResolveRoot_NoTargetCheck ==
    /\ pc = "resolve"
    /\ root' = RootOf(args)
    /\ pc' = "cleanup" /\ status' = status
    /\ UNCHANGED <<scriptDir, fs, envUnlinkOk, envWriteOk, args, out_path, files,
                   idx, written, reads, summary, run, fsBefore, unlinkFailed, firstOutput>>

ResolveRoot ==
    /\ pc = "resolve"
    /\ root' = RootOf(args)
    /\ IF ~args.all /\ (~Exists(RootOf(args)) \/ ~IsDir(RootOf(args)))
       THEN pc' = "exit" /\ status' = Some(1)
       ELSE pc' = "cleanup" /\ status' = status
    /\ UNCHANGED <<scriptDir, fs, envUnlinkOk, envWriteOk, args, out_path, files,
                   idx, written, reads, summary, run, fsBefore, unlinkFailed, firstOutput>>

\* out_path.unlink() succeeds on a file the platform lets go; it raises on a directory
UnlinkSucceeds(p) == EntryAt(fs, p).kind = "file" /\ envUnlinkOk

OutPathOf(a) == scriptDir \o a.output

\* RemoveOldOutput with a fault: a failing unlink is not caught
RemoveOldOutput_UnlinkRaises ==
    /\ pc = "cleanup"
    /\ out_path' = OutPathOf(args)
    /\ IF Exists(OutPathOf(args))
       THEN IF UnlinkSucceeds(OutPathOf(args))
            THEN /\ fs' = SetEntry(fs, OutPathOf(args), Absent) /\ unlinkFailed' = FALSE
                 /\ pc' = "scan" /\ status' = status
            ELSE /\ fs' = fs /\ unlinkFailed' = TRUE
                 /\ pc' = "exit" /\ status' = Some(1)
       ELSE fs' = fs /\ unlinkFailed' = FALSE /\ pc' = "scan" /\ status' = status
    /\ UNCHANGED <<scriptDir, envUnlinkOk, envWriteOk, args, root, files,
                   idx, written, reads, summary, run, fsBefore, firstOutput>>

\* RemoveOldOutput with a fault: the old output is looked for below root, not script_dir
RemoveOldOutput_UnderRoot ==
    /\ pc = "cleanup"
    /\ out_path' = OutPathOf(args)
    /\ IF Exists(root \o args.output)
       THEN IF UnlinkSucceeds(root \o args.output)
            THEN fs' = SetEntry(fs, root \o args.output, Absent) /\ unlinkFailed' = FALSE
            ELSE fs' = fs /\ unlinkFailed' = TRUE
       ELSE fs' = fs /\ unlinkFailed' = FALSE
    /\ pc' = "scan"
    /\ UNCHANGED <<scriptDir, envUnlinkOk, envWriteOk, args, status, root, files,
                   idx, written, reads, summary, run, fsBefore, firstOutput>>

RemoveOldOutput ==
    /\ pc = "cleanup"
    /\ out_path' = OutPathOf(args)
    /\ IF Exists(OutPathOf(args))
       THEN IF UnlinkSucceeds(OutPathOf(args))
            THEN fs' = SetEntry(fs, OutPathOf(args), Absent) /\ unlinkFailed' = FALSE
            ELSE fs' = fs /\ unlinkFailed' = TRUE
       ELSE fs' = fs /\ unlinkFailed' = FALSE
    /\ pc' = "scan"
    /\ UNCHANGED <<scriptDir, envUnlinkOk, envWriteOk, args, status, root, files,
                   idx, written, reads, summary, run, fsBefore, firstOutput>>

IterSourceFiles ==
    /\ pc = "scan"
    /\ files' \in {iter_source_files(root, order) : order \in TraversalOrders(root)}
    /\ pc' = "open"
    /\ UNCHANGED <<scriptDir, fs, envUnlinkOk, envWriteOk, args, status, root, out_path,
                   idx, written, reads, summary, run, fsBefore, unlinkFailed, firstOutput>>

\* out_file.open("w") raises on a directory and on a file that may not be written
OpenSucceeds(p) ==
    LET e == EntryAt(fs, p)
    IN  e.kind = "absent" \/ (e.kind = "file" /\ envWriteOk)

\* the entry open("w") leaves: a new empty file, or the old one truncated
Truncated(e) == IF e.kind = "file" THEN RegularFile(<<>>, e.readable) ELSE RegularFile(<<>>, TRUE)

OpenOutput ==
    /\ pc = "open"
    /\ IF OpenSucceeds(out_path)
       THEN /\ fs' = SetEntry(fs, out_path, Truncated(EntryAt(fs, out_path)))
            /\ pc' = "write" /\ status' = status
       ELSE /\ fs' = fs
            /\ pc' = "exit" /\ status' = Some(1)
    /\ idx' = 1 /\ written' = <<>> /\ reads' = <<>>
    /\ UNCHANGED <<scriptDir, envUnlinkOk, envWriteOk, args, root, out_path, files,
                   summary, run, fsBefore, unlinkFailed, firstOutput>>

\* WriteEntry with a fault: the exception of read_text is not caught
WriteEntry_ReadErrorRaises ==
    /\ pc = "write"
    /\ idx <= Len(files)
    /\ IF ReadResults(files[idx]) = {Diagnostic}
       THEN /\ pc' = "exit" /\ status' = Some(1)
            /\ written' = written \o Header(files[idx], root)
            /\ UNCHANGED <<reads, idx>>
       ELSE /\ \E text \in ReadResults(files[idx]) :
                  /\ written' = written \o EntryText(idx, text)
                  /\ reads' = Append(reads, text)
            /\ idx' = idx + 1
            /\ UNCHANGED <<pc, status>>
    /\ UNCHANGED <<scriptDir, fs, envUnlinkOk, envWriteOk, args, root, out_path,
                   files, summary, run, fsBefore, unlinkFailed, firstOutput>>

\* one pass of "for i, f in enumerate(files)"
WriteEntry ==
    /\ pc = "write"
    /\ idx <= Len(files)
    /\ \E text \in ReadResults(files[idx]) :
          /\ written' = written \o EntryText(idx, text)
          /\ reads' = Append(reads, text)
    /\ idx' = idx + 1
    /\ UNCHANGED <<scriptDir, fs, envUnlinkOk, envWriteOk, args, pc, status, root, out_path,
                   files, summary, run, fsBefore, unlinkFailed, firstOutput>>

\* Finish with a fault: the summary prints the loop position, not len(files)
Finish_CountsFromOne ==
    /\ pc = "write"
    /\ idx > Len(files)
    /\ fs' = SetEntry(fs, out_path, RegularFile(Encode(written), EntryAt(fs, out_path).readable))
    /\ summary' = Some(idx)
    /\ pc' = "exit" /\ status' = Some(0)
    /\ firstOutput' = IF firstOutput = None THEN Some(Encode(written)) ELSE firstOutput
    /\ UNCHANGED <<scriptDir, envUnlinkOk, envWriteOk, args, root, out_path, files,
                   idx, written, reads, run, fsBefore, unlinkFailed>>

\* the environment: the file the loop is about to read is deleted by someone else
\* after the scan listed it
FileVanishes ==
    /\ pc = "write"
    /\ idx <= Len(files)
    /\ files[idx] # out_path
    /\ EntryAt(fs, files[idx]).kind = "file"
    /\ fs' = SetEntry(fs, files[idx], Absent)
    /\ UNCHANGED <<scriptDir, envUnlinkOk, envWriteOk, args, pc, status, root, out_path, files,
                   idx, written, reads, summary, run, fsBefore, unlinkFailed, firstOutput>>

\* the with block closes fw, then main prints the summary and returns
Finish ==
    /\ pc = "write"
    /\ idx > Len(files)
    /\ fs' = SetEntry(fs, out_path, RegularFile(Encode(written), EntryAt(fs, out_path).readable))
    /\ summary' = Some(Len(files))
    /\ pc' = "exit" /\ status' = Some(0)
    /\ firstOutput' = IF firstOutput = None THEN Some(Encode(written)) ELSE firstOutput
    /\ UNCHANGED <<scriptDir, envUnlinkOk, envWriteOk, args, root, out_path, files,
                   idx, written, reads, run, fsBefore, unlinkFailed>>

\* the invoker runs the tool again with the same command line on the tree as it is
RunAgain ==
    /\ pc = "exit"
    /\ status = Some(0)
    /\ run < MaxRuns
    /\ run' = run + 1
    /\ pc' = "parse" /\ status' = None
    /\ root' = <<>> /\ out_path' = <<>> /\ files' = <<>>
    /\ idx' = 1 /\ written' = <<>> /\ reads' = <<>> /\ summary' = None
    /\ fsBefore' = fs /\ unlinkFailed' = FALSE
    /\ UNCHANGED <<scriptDir, fs, envUnlinkOk, envWriteOk, args, firstOutput>>

(***************************************************************************)
(* Trees and command lines                                                 *)
(***************************************************************************)
\* the tree holding the files S with data d and readability r; a directory of
\* the model exists when the tree always has it or a file of S lies below it
TreeOf(S, d, r, always) ==
    [u \in Universe |->
        IF u \in S THEN RegularFile(d[u], r[u])
        ELSE IF u \in Dirs /\ (u \in always \/ \E f \in S : IsPrefix(u, f)) THEN Directory
        ELSE Absent]

Trees(cands, datas, readables, always, maxFiles) ==
    UNION { { TreeOf(S, d, r, always) : d \in [S -> datas], r \in [S -> readables] }
            : S \in {T \in SUBSET cands : Cardinality(T) <= maxFiles} }

ScriptDirs == {<<n_home, n_proj>>, <<n_build, n_proj>>}

\* -- the whole program -------------------------------------------------
MainFiles == {<<n_a_py>>, <<OUTPUT_FILENAME>>, <<n_sub, n_b_txt>>, <<n_build, n_x_js>>}
MainData == {<<"x", "\n">>}
MainDirNames == {None, Some(<<n_sub>>), Some(<<n_build>>), Some(<<n_nodir>>), Some(<<n_a_py>>)}
MainOutputs ==
    {<<OUTPUT_FILENAME>>, <<n_a_py>>, <<n_b_txt>>, <<n_sub>>, <<n_sub, n_b_txt>>, <<n_out_log>>}

Init ==
    /\ scriptDir \in ScriptDirs
    /\ fs \in Trees(MainFiles, MainData, {TRUE}, {<<>>, <<n_sub>>, <<n_build>>}, MaxFiles)
    /\ envUnlinkOk \in BOOLEAN
    /\ envWriteOk \in BOOLEAN
    /\ args \in [all : BOOLEAN, dir_name : MainDirNames, output : MainOutputs]
    /\ pc = "parse" /\ status = None
    /\ root = <<>> /\ out_path = <<>> /\ files = <<>>
    /\ idx = 1 /\ written = <<>> /\ reads = <<>> /\ summary = None
    /\ run = 1 /\ fsBefore = fs /\ unlinkFailed = FALSE /\ firstOutput = None

Next ==
    \/ ParseArgs
    \/ ResolveRoot
    \/ RemoveOldOutput
    \/ IterSourceFiles
    \/ OpenOutput
    \/ WriteEntry
    \/ Finish
    \/ RunAgain

Spec == Init /\ [][Next]_vars

\* -- iter_source_files on its own: any tree, any root of it ---------------
EnumFiles ==
    { <<n_a_py>>, <<n_A_PY>>, <<n_img_png>>, <<n_Makefile>>, <<n_makefile>>, <<n_dot_txt>>,
      <<n_sub, n_b_txt>>, <<n_build, n_x_js>>, <<n_sub, n_build, n_y_py>> }

InitEnum ==
    /\ scriptDir \in ScriptDirs
    /\ fs \in Trees(EnumFiles, MainData, {TRUE}, {<<>>, <<n_sub>>, <<n_build>>}, MaxTreeFiles)
    /\ envUnlinkOk = TRUE /\ envWriteOk = TRUE
    /\ root \in {Abs(d) : d \in {u \in Dirs : fs[u].kind = "dir"}}
    /\ args = [all |-> root = scriptDir,
               dir_name |-> IF root = scriptDir THEN None ELSE Some(Rel(root)),
               output |-> <<OUTPUT_FILENAME>>]
    /\ out_path = Abs(<<OUTPUT_FILENAME>>)
    /\ pc = "scan" /\ status = None /\ files = <<>>
    /\ idx = 1 /\ written = <<>> /\ reads = <<>> /\ summary = None
    /\ run = 1 /\ fsBefore = fs /\ unlinkFailed = FALSE /\ firstOutput = None

NextEnum == IterSourceFiles

SpecEnum == InitEnum /\ [][NextEnum]_vars

\* -- write_merged on the list of a scan: any data, readable or not --------
WriteFiles == {<<n_a_py>>, <<n_Makefile>>, <<n_sub, n_b_txt>>, <<OUTPUT_FILENAME>>}
WriteData ==
    { <<>>,
      <<" ", "\n", "\t">>,
      <<"x", "\n", "\n">>,
      <<" ", "x", BadByte, "\r", "\n", "y", "\r">> }

InitWrite ==
    /\ scriptDir = <<n_home, n_proj>>
    /\ fs \in Trees(WriteFiles, WriteData, BOOLEAN, {<<>>, <<n_sub>>, <<n_build>>}, MaxWriteFiles)
    /\ envWriteOk = TRUE
    /\ root \in {Abs(<<>>), Abs(<<n_sub>>)}
    /\ args = [all |-> root = scriptDir,
               dir_name |-> IF root = scriptDir THEN None ELSE Some(Rel(root)),
               output |-> <<OUTPUT_FILENAME>>]
    /\ out_path = Abs(<<OUTPUT_FILENAME>>)
    \* an output file is still there at the scan only when its removal failed
    /\ unlinkFailed = Exists(out_path)
    /\ envUnlinkOk = ~unlinkFailed
    /\ pc = "scan" /\ status = None /\ files = <<>>
    /\ idx = 1 /\ written = <<>> /\ reads = <<>> /\ summary = None
    /\ run = 1 /\ fsBefore = fs /\ firstOutput = None

NextWrite ==
    \/ IterSourceFiles
    \/ OpenOutput
    \/ WriteEntry
    \/ FileVanishes
    \/ Finish

SpecWrite == InitWrite /\ [][NextWrite]_vars

(***************************************************************************)
(* Properties                                                              *)
(***************************************************************************)
\* the scan of this invocation has returned
Scanned == pc \in {"open", "write"} \/ (pc = "exit" /\ out_path # <<>>)

\* the directories strictly between a path and the root
Between(p, r) == {SubSeq(p, 1, k) : k \in (Len(r) + 1)..(Len(p) - 1)}

\* the files below r that pass the name test and have no excluded directory
\* name strictly between them and r
ExpectedFiles(r) ==
    { p \in Below(r) :
        /\ EntryAt(fs, p).kind = "file"
        /\ \/ Str(Name(p)) \in WHITELIST_BARE_NAMES
           \/ Str(Lower(Suffix(p))) \in WHITELIST_EXTS
        /\ \A d \in Between(p, r) : Str(Name(d)) \notin EXCLUDE_DIRS }

ListedSet == {files[k] : k \in 1..Len(files)}

\* C1: iter_source_files(root) returns exactly the files below root that pass the
\* name test and have no excluded directory name strictly between them and the
\* root, each once, whatever the root is called and whatever lies above it.
C1_ExactlyTheQualifyingFiles ==
    pc = "open" => /\ ListedSet = ExpectedFiles(root)
                   /\ Len(files) = Cardinality(ListedSet)

\* the returned list is in ascending order of the lowercased path string
Ascending(s) ==
    \A a, b \in 1..Len(s) : a < b => ~StrLess(SortKey(s[b]), SortKey(s[a]))

\* C7: the list of iter_source_files ascends in the lowercased path string and is
\* the same for every order in which the traversal can yield the entries.
C7_OrderFixedBySurvivors ==
    pc = "open" => /\ Ascending(files)
                   /\ \A order \in TraversalOrders(root) :
                         iter_source_files(root, order) = files

\* C2: once the scan has returned, the output path is not in the list handed to
\* the writer.
C2_OutputNeverListed ==
    Scanned => \A k \in 1..Len(files) : files[k] # out_path

\* C6: a second successful invocation with the same command line on the
\* unchanged tree leaves the output data the first one left.
C6_SecondRunSameOutput ==
    (pc = "exit" /\ status = Some(0) /\ run >= 2)
        => EntryAt(fs, out_path).data = firstOutput[1]

\* text without its trailing whitespace: up to its last non-whitespace character
Trimmed(t) ==
    LET solid == {k \in 1..Len(t) : t[k] \notin Whitespace}
    IN  IF solid = {} THEN <<>>
        ELSE SubSeq(t, 1, CHOOSE k \in solid : \A m \in solid : m <= k)

\* one entry of the document: header line, blank line, trimmed content, newline
EntryBlock(f, text) ==
    <<"-", "-", " ">> \o RelativePosix(f, root) \o <<"\n">> \o <<"\n">> \o Trimmed(text) \o <<"\n">>

\* the document for entries k..n: one blank line between two entries, none at the end
RECURSIVE DocumentFrom(_, _, _)
DocumentFrom(k, fl, texts) ==
    IF k > Len(fl) THEN <<>>
    ELSE EntryBlock(fl[k], texts[k])
         \o (IF k < Len(fl) THEN <<"\n">> \o DocumentFrom(k + 1, fl, texts) ELSE <<>>)

Document(fl, texts) == DocumentFrom(1, fl, texts)

\* read_text raises on this file: it is gone, or may not be read
Unreadable(f) == EntryAt(fs, f).kind # "file" \/ ~EntryAt(fs, f).readable

\* C3: once write_merged has its list, no read failure (permission, file gone
\* since the scan) aborts the run: the loop goes on, the run ends with status 0,
\* and the output holds one entry per listed file in list order, the diagnostic
\* standing in for every file whose read raised.
C3_ReadFailuresAbsorbed ==
    /\ pc \in {"write", "exit"} =>
          /\ Len(reads) = idx - 1
          /\ idx <= Len(files) + 1
          /\ \A k \in 1..Len(reads) : Unreadable(files[k]) <=> reads[k] = Diagnostic
    /\ pc = "write" => status = None /\ (ENABLED WriteEntry \/ ENABLED Finish)
    /\ pc = "exit" =>
          /\ status = Some(0)
          /\ Len(reads) = Len(files)
          /\ EntryAt(fs, out_path).data =
                Encode(Document(files, [k \in 1..Len(files) |->
                          IF Unreadable(files[k]) THEN Diagnostic ELSE reads[k]]))

C3_Witness ==
    /\ pc = "exit" /\ status = Some(0)
    /\ Len(files) >= 2
    /\ \E k \in 1..Len(files) : ~EntryAt(fs, files[k]).readable /\ reads[k] = Diagnostic
    /\ \E k \in 1..Len(files) : EntryAt(fs, files[k]).kind = "absent" /\ reads[k] = Diagnostic

\* C5: the output written for a list is, in list order, header line "-- <relative
\* path>", one blank line, the content without trailing whitespace, one newline,
\* with exactly one blank line between entries and nothing after the last; the
\* content of a listed file other than the output is its decoded data.
C5_DocumentFormat ==
    (pc = "exit" /\ status = Some(0)) =>
        /\ Len(reads) = Len(files)
        /\ EntryAt(fs, out_path).data = Encode(Document(files, reads))
        /\ \A k \in 1..Len(files) :
              (~Unreadable(files[k]) /\ files[k] # out_path)
                  => reads[k] = Decode(EntryAt(fs, files[k]).data)

C5_Witness ==
    /\ pc = "exit" /\ status = Some(0)
    /\ Len(files) >= 2
    /\ \E k \in 1..Len(files) : reads[k] # <<>> /\ Trimmed(reads[k]) = <<>>
    /\ \E k \in 1..Len(files) : reads[k] = <<>>

\* the command line is one main rejects: no mode, both modes, or a -d target
\* that is not a directory
FatalArgs == UsageError(args) \/ EntryAt(fsBefore, RootOf(args)).kind # "dir"

\* C4: a run with a rejected command line never gets past validation: it ends
\* with a non-zero status, the tree as it was (an old output file neither deleted
\* nor truncated, none created), and no scan.
C4_FatalBeforeAnyMutation ==
    FatalArgs =>
        /\ pc \in {"parse", "resolve", "exit"}
        /\ fs = fsBefore
        /\ files = <<>> /\ out_path = <<>>
        /\ pc = "exit" => status \in {Some(1), Some(2)}
        /\ pc # "exit" => ENABLED (ParseArgs \/ ResolveRoot)

C4_Witness ==
    /\ pc = "exit" /\ status = Some(1)
    /\ FatalArgs
    /\ EntryAt(fs, OutPathOf(args)).kind = "file"

\* C10: the only entry of the tree a run changes is the one at the output path.
C10_OnlyOutputPathChanges ==
    \A u \in Universe : Abs(u) # OutPathOf(args) => fs[u] = fsBefore[u]

C10_Witness ==
    /\ pc = "exit" /\ status = Some(0)
    /\ args.output = <<n_a_py>>
    /\ fsBefore[<<n_a_py>>].kind = "file"
    /\ fs[<<n_a_py>>] # fsBefore[<<n_a_py>>]
    /\ fs[<<n_sub, n_b_txt>>].kind = "file"

\* open("w") on the output path succeeds: the path was free or freed, or holds a
\* file that may be written
OutputOpenable ==
    ~unlinkFailed \/ (EntryAt(fsBefore, out_path).kind = "file" /\ envWriteOk)

\* the step of main at hand can be taken
CanStep ==
    \/ pc = "scan" /\ TraversalOrders(root) # {}
    \/ pc = "open" /\ ENABLED OpenOutput
    \/ pc = "write" /\ ENABLED (WriteEntry \/ Finish)

\* C8 as stated: after a failed deletion the run always ends in success with the
\* new document at the output path.
C8_AnyDeleteFailureEndsInSuccess ==
    (unlinkFailed /\ pc = "exit") =>
        /\ status = Some(0)
        /\ EntryAt(fs, out_path).kind = "file"
        /\ EntryAt(fs, out_path).data = Encode(written)

\* C8, amended: a failed deletion is swallowed and the run goes on to the scan and
\* the write.  When a writable regular file is at the output path the run ends in
\* success with the new document there; when a directory or a file that may not
\* be written is there, opening the output raises: the run ends with a non-zero
\* status and the tree as it was.
C8_DeleteFailureSwallowed ==
    unlinkFailed =>
        /\ pc \in {"scan", "open", "write", "exit"}
        /\ pc # "exit" => status = None /\ CanStep
        /\ pc = "write" => OutputOpenable
        /\ pc = "exit" =>
              IF OutputOpenable
              THEN /\ status = Some(0)
                   /\ EntryAt(fs, out_path).kind = "file"
                   /\ EntryAt(fs, out_path).data = Encode(Document(files, reads))
              ELSE /\ status = Some(1)
                   /\ fs = fsBefore

C8_Witness ==
    /\ unlinkFailed /\ pc = "exit" /\ status = Some(0)
    /\ Len(files) >= 1
    /\ EntryAt(fsBefore, out_path).data # EntryAt(fs, out_path).data

====
